---- MODULE Spec2Model ----
(***************************************************************************)
(* becomeDeamon (src/deamon/deamon.c) run by one caller, together with the *)
(* kernel objects it acts on: the process table, process groups, sessions  *)
(* and their controlling terminals, per-process umask / cwd / descriptor   *)
(* tables and the RLIMIT_NOFILE soft limit.                                *)
(*                                                                         *)
(* Every statement of becomeDeamon is one action of the process executing  *)
(* it; fork() creates a second process that runs concurrently with its     *)
(* parent (header.h: which of the two runs first is unpredictable).        *)
(***************************************************************************)
EXTENDS Integers, Sequences, FiniteSets, TLC

\* ---------------------------------------------------------------- bounds
MaxPid == 4
MaxFd == 3

\* ------------------------------------------------------ program constants
DB_MAX_CLOSE == 8192
STDIN_FILENO == 0
STDOUT_FILENO == 1
STDERR_FILENO == 2
EXIT_SUCCESS == 0
OPEN_MAX_INDETERMINATE == -1
InitPid == 1
CallerPid == 2
NoPid == 0
Umask022 == 18

PIDS == 1..MaxPid
\* ret[p] and status[p] are << >> until p returns / exits, then <<value>>
NoRet == << >>
RootDir == "/"
HomeDir == "/home"
NullPath == "/dev/null"
TtyPath == "/dev/tty1"

\* descriptor numbers the caller may hold open on entry
InitFds == (0..MaxFd) \cup {DB_MAX_CLOSE}
\* values of the descriptor limit on entry (the soft RLIMIT_NOFILE, or
\* indeterminate)
NoFileLimits == (0..(MaxFd + 1)) \cup {OPEN_MAX_INDETERMINATE}

\* the open file description an inherited descriptor refers to: 0, 1 and 2
\* share the terminal, every other descriptor has a file of its own
InheritedFile(n) ==
    IF n <= STDERR_FILENO THEN [path |-> TtyPath, id |-> -1]
    ELSE [path |-> "/tmp/inherited", id |-> -(n + 1)]

EmptyFdt == [n \in {} |-> InheritedFile(0)]

VARIABLES pc, ret, status, parent, pgid, sid, ctty, umask, cwd, fdt, nofile,
          maxfd, fd, log, nextOfd, entryFds

\* the state of the daemonizer and of the kernel objects it acts on
dvars == <<pc, ret, status, parent, pgid, sid, ctty, umask, cwd, fdt, nofile,
           maxfd, fd, log, nextOfd, entryFds>>

\* the byte transform of the echo servers, applied to one buffer
VARIABLES tIn, tOnce, tTwice, tPc

xvars == <<tIn, tOnce, tTwice, tPc>>

\* the datagram echo server and its clients
\* two client processes, each with its own socket address
MaxMsgs == 2
BUF_SIZE == 10

Clients == {1, 2}
NoAddr == 0

VARIABLES sPc, sBuf, sNum, sClAddr, sQueue, cPc, cJ, cArgs, cQueue, cResp, gLog

gvars == <<sPc, sBuf, sNum, sClAddr, sQueue, cPc, cJ, cArgs, cQueue, cResp, gLog>>

DgramIdle ==
    /\ sPc = "off"
    /\ sBuf = << >>
    /\ sNum = 0
    /\ sClAddr = NoAddr
    /\ sQueue = << >>
    /\ cPc = [c \in Clients |-> "off"]
    /\ cJ = [c \in Clients |-> 0]
    /\ cArgs = [c \in Clients |-> << >>]
    /\ cQueue = [c \in Clients |-> << >>]
    /\ cResp = [c \in Clients |-> << >>]
    /\ gLog = << >>

\* the connection-oriented server (unixDomainStreamServer.c) and its peers
\* (unixDomainStreamClient.c)
MaxStream == 2
STREAM_BUF_SIZE == 500
ListenFd == 3

\* two peer processes
Peers == {1, 2}
NoPeer == 0

VARIABLES vPc, vFds, vCfd, vConn, vBuf, vNumRead, vWrote, vErr, vBacklog, vLog,
          pPc, pIn, pSock

svars == <<vPc, vFds, vCfd, vConn, vBuf, vNumRead, vWrote, vErr, vBacklog, vLog,
           pPc, pIn, pSock>>

StreamIdle ==
    /\ vPc = "off"
    /\ vFds = {}
    /\ vCfd = 0
    /\ vConn = NoPeer
    /\ vBuf = << >>
    /\ vNumRead = 0
    /\ vWrote = 0
    /\ vErr = ""
    /\ vBacklog = << >>
    /\ vLog = << >>
    /\ pPc = [p \in Peers |-> "off"]
    /\ pIn = [p \in Peers |-> << >>]
    /\ pSock = [p \in Peers |-> << >>]

\* the control flow of the example programs: which library call comes next,
\* and what each program does with the result of a call
MaxArgs == 2
MaxCands == 2
MaxOps == 8

VARIABLES aProg, aArgv, aCands, aPc, aJ, aCand, aTrace, aUsage, aStatus,
          aPath, aSocks, aErrno

avars == <<aProg, aArgv, aCands, aPc, aJ, aCand, aTrace, aUsage, aStatus,
           aPath, aSocks, aErrno>>

ProgIdle ==
    /\ aProg = "none"
    /\ aArgv = << >>
    /\ aCands = 0
    /\ aPc = "off"
    /\ aJ = 0
    /\ aCand = 0
    /\ aTrace = << >>
    /\ aUsage = FALSE
    /\ aStatus = "none"
    /\ aPath = FALSE
    /\ aSocks = {}
    /\ aErrno = "0"

\* readLine of test_client.c: one call, on a descriptor that holds lFd
MaxLine == 4
MaxN == 3
MaxIntr == 2
NEWLINE == 10

\* what a byte of the caller's buffer holds before readLine stores into it
Unwritten == -1

VARIABLES lFd, lGot, lN, lNull, lBuffer, lBuf, lTotRead, lNumRead, lCh, lPc,
          lRet, lErrno, lIntr

lvars == <<lFd, lGot, lN, lNull, lBuffer, lBuf, lTotRead, lNumRead, lCh, lPc,
           lRet, lErrno, lIntr>>

LineIdle ==
    /\ lFd = << >>
    /\ lGot = << >>
    /\ lN = 0
    /\ lNull = FALSE
    /\ lBuffer = [i \in 0..MaxN |-> Unwritten]
    /\ lBuf = 0
    /\ lTotRead = 0
    /\ lNumRead = 0
    /\ lCh = 0
    /\ lPc = "off"
    /\ lRet = 0
    /\ lErrno = "0"
    /\ lIntr = 0

\* everything outside the daemonizer
netvars == <<xvars, gvars, svars, avars, lvars>>

\* what the steps of one family of programs leave alone
exceptXform == <<dvars, gvars, svars, avars, lvars>>

exceptDgram == <<dvars, xvars, svars, avars, lvars>>

exceptStream == <<dvars, xvars, gvars, avars, lvars>>

exceptProg == <<dvars, xvars, gvars, svars, lvars>>

exceptLine == <<dvars, xvars, gvars, svars, avars>>

vars == <<dvars, netvars>>

\* the programs of the other specifications are not running
XformIdle == tIn = << >> /\ tOnce = << >> /\ tTwice = << >> /\ tPc = "off"

NetIdle == XformIdle /\ DgramIdle /\ StreamIdle /\ ProgIdle /\ LineIdle

\* ------------------------------------------------------------ kernel side
Live(p) == pc[p] \notin {"none", "exited"}

\* a pid the kernel may hand out: not a process, process group or session id
FreePids ==
    {c \in PIDS : /\ c # InitPid
                  /\ pc[c] = "none"
                  /\ \A q \in PIDS : Live(q) => (pgid[q] # c /\ sid[q] # c)}

ChildPgid_ownGroup(p, c) == c

\* fork(): the child inherits its parent's process group and session
ChildPgid(p, c) == pgid[p]
ChildSid(p, c) == sid[p]

NewSessionCtty_inherited(p) == ctty[sid[p]]

\* setsid(): the new session starts without a controlling terminal
NewSessionCtty(p) == FALSE

\* setsid() fails with EPERM for a process-group leader
SetsidPermitted(p) == pgid[p] # p

OpenFds(p) == DOMAIN fdt[p]

BelowLimit(p, n) == nofile[p] = OPEN_MAX_INDETERMINATE \/ n < nofile[p]

\* open()/dup(): the lowest descriptor number not in use
LowestFree(p) ==
    CHOOSE n \in 0..(DB_MAX_CLOSE + 1) :
        /\ n \notin OpenFds(p)
        /\ \A m \in 0..(n - 1) : m \in OpenFds(p)

\* sysconf(_SC_OPEN_MAX): the soft limit, -1 when it is indeterminate
Sysconf(p) == IF nofile[p] = OPEN_MAX_INDETERMINATE THEN -1 ELSE nofile[p]

CloseAll_stopsEarly(f, m) == [n \in {k \in DOMAIN f : ~(k < m - 1)} |-> f[n]]

CloseAll_skipsStdin(f, m) ==
    [n \in {k \in DOMAIN f : ~(STDIN_FILENO < k /\ k < m)} |-> f[n]]

\* for (fd = 0; fd < maxfd; fd++) close(fd);
CloseAll(f, m) == [n \in {k \in DOMAIN f : ~(k < m)} |-> f[n]]

\* dup2(oldfd, newfd): newfd is silently closed first when open
Dup2(f, oldfd, newfd) ==
    [n \in (DOMAIN f) \cup {newfd} |-> IF n = newfd THEN f[oldfd] ELSE f[n]]

\* only a session leader whose session has no controlling terminal gets one
\* by opening a terminal device (without O_NOCTTY)
AcquiresCtty(p) == sid[p] = p /\ ~ctty[sid[p]]

HasCtty(p) == ctty[sid[p]]

\* ---------------------------------------------------------------- Init
Init ==
    /\ pc = [p \in PIDS |-> IF p = CallerPid THEN "fork1" ELSE "none"]
    /\ ret = [p \in PIDS |-> NoRet]
    /\ status = [p \in PIDS |-> NoRet]
    /\ parent = [p \in PIDS |-> NoPid]
    /\ \E g \in {InitPid, CallerPid} :
         \E s \in (IF g = CallerPid THEN {InitPid, CallerPid} ELSE {InitPid}) :
           \E t \in BOOLEAN :
             /\ pgid = [p \in PIDS |-> IF p = CallerPid THEN g ELSE NoPid]
             /\ sid = [p \in PIDS |-> IF p = CallerPid THEN s ELSE NoPid]
             /\ ctty = [p \in PIDS |-> p = s /\ t]
    /\ umask = [p \in PIDS |-> IF p = CallerPid THEN Umask022 ELSE 0]
    /\ cwd = [p \in PIDS |-> IF p = CallerPid THEN HomeDir ELSE RootDir]
    /\ \E S \in SUBSET InitFds :
         /\ fdt = [p \in PIDS |-> IF p = CallerPid
                                  THEN [n \in S |-> InheritedFile(n)]
                                  ELSE EmptyFdt]
         /\ entryFds = S
    /\ \E l \in NoFileLimits :
         nofile = [p \in PIDS |-> IF p = CallerPid THEN l ELSE 0]
    /\ maxfd = [p \in PIDS |-> 0]
    /\ fd = [p \in PIDS |-> 0]
    /\ log = [p \in PIDS |-> << >>]
    /\ nextOfd = 1
    /\ NetIdle

\* ------------------------------------------------------------- actions
\* return <v>; from becomeDeamon in process p
Return(p, v) ==
    /\ pc' = [pc EXCEPT ![p] = "returned"]
    /\ ret' = [ret EXCEPT ![p] = <<v>>]

FailValue_perStep(step) == IF step = "open" THEN -2 ELSE -1

\* the value of each "return -1;" of becomeDeamon, by the step that failed
FailValue(step) == -1

ForkParentPc_continues(childpc) == childpc

ForkParentPc_leaderContinues(childpc) ==
    IF childpc = "umask" THEN childpc ELSE "_exit"

\* what the parent does after a successful fork: default: _exit(EXIT_SUCCESS)
ForkParentPc(childpc) == "_exit"

\* switch (fork()) { case -1: return -1; case 0: break; default: _exit(...) }
Fork(p, at, childpc) ==
    /\ pc[p] = at
    /\ \/ /\ Return(p, FailValue("fork"))
          /\ log' = [log EXCEPT ![p] = Append(@, "fork")]
          /\ UNCHANGED <<parent, pgid, sid, umask, cwd, fdt, nofile>>
       \/ \E c \in FreePids :
          /\ pc' = [pc EXCEPT ![p] = ForkParentPc(childpc), ![c] = childpc]
          /\ parent' = [parent EXCEPT ![c] = p]
          /\ pgid' = [pgid EXCEPT ![c] = ChildPgid(p, c)]
          /\ sid' = [sid EXCEPT ![c] = ChildSid(p, c)]
          /\ umask' = [umask EXCEPT ![c] = umask[p]]
          /\ cwd' = [cwd EXCEPT ![c] = cwd[p]]
          /\ fdt' = [fdt EXCEPT ![c] = fdt[p]]
          /\ nofile' = [nofile EXCEPT ![c] = nofile[p]]
          /\ log' = [log EXCEPT ![p] = Append(@, "fork"),
                                ![c] = Append(log[p], "fork")]
          /\ UNCHANGED ret
    /\ UNCHANGED <<status, ctty, maxfd, fd, nextOfd, entryFds>>

Fork1(p) == Fork(p, "fork1", "setsid") /\ UNCHANGED netvars

Fork2(p) == Fork(p, "fork2", "umask") /\ UNCHANGED netvars

\* _exit(EXIT_SUCCESS): the process ends, its descriptors are released
Exit(p) ==
    /\ pc[p] = "_exit"
    /\ UNCHANGED netvars
    /\ pc' = [pc EXCEPT ![p] = "exited"]
    /\ status' = [status EXCEPT ![p] = <<EXIT_SUCCESS>>]
    /\ fdt' = [fdt EXCEPT ![p] = EmptyFdt]
    /\ UNCHANGED <<ret, parent, pgid, sid, ctty, umask, cwd, nofile, maxfd, fd,
                   log, nextOfd, entryFds>>

\* if (setsid() == -1) return -1;
Setsid(p) ==
    /\ pc[p] = "setsid"
    /\ UNCHANGED netvars
    /\ log' = [log EXCEPT ![p] = Append(@, "setsid")]
    /\ IF SetsidPermitted(p)
       THEN /\ sid' = [sid EXCEPT ![p] = p]
            /\ pgid' = [pgid EXCEPT ![p] = p]
            /\ ctty' = [ctty EXCEPT ![p] = NewSessionCtty(p)]
            /\ pc' = [pc EXCEPT ![p] = "fork2"]
            /\ UNCHANGED ret
       ELSE /\ Return(p, FailValue("setsid"))
            /\ UNCHANGED <<sid, pgid, ctty>>
    /\ UNCHANGED <<status, parent, umask, cwd, fdt, nofile, maxfd, fd, nextOfd,
                   entryFds>>

AfterUmask_skipsChdir == "sysconf"

\* umask(0);
AfterUmask == "chdir"
ClearUmask(p) ==
    /\ pc[p] = "umask"
    /\ UNCHANGED netvars
    /\ umask' = [umask EXCEPT ![p] = 0]
    /\ pc' = [pc EXCEPT ![p] = AfterUmask]
    /\ log' = [log EXCEPT ![p] = Append(@, "umask")]
    /\ UNCHANGED <<ret, status, parent, pgid, sid, ctty, cwd, fdt, nofile,
                   maxfd, fd, nextOfd, entryFds>>

\* chdir("/"); the result is not looked at
Chdir(p) ==
    /\ pc[p] = "chdir"
    /\ UNCHANGED netvars
    /\ \/ cwd' = [cwd EXCEPT ![p] = RootDir]
       \/ UNCHANGED cwd
    /\ pc' = [pc EXCEPT ![p] = "sysconf"]
    /\ log' = [log EXCEPT ![p] = Append(@, "chdir")]
    /\ UNCHANGED <<ret, status, parent, pgid, sid, ctty, umask, fdt, nofile,
                   maxfd, fd, nextOfd, entryFds>>

\* maxfd = sysconf(_SC_OPEN_MAX); if (maxfd == -1) maxfd = DB_MAX_CLOSE;
GetMaxFd(p) ==
    /\ pc[p] = "sysconf"
    /\ UNCHANGED netvars
    /\ maxfd' = [maxfd EXCEPT ![p] =
                   IF Sysconf(p) = -1 THEN DB_MAX_CLOSE ELSE Sysconf(p)]
    /\ pc' = [pc EXCEPT ![p] = "closeall"]
    /\ UNCHANGED <<ret, status, parent, pgid, sid, ctty, umask, cwd, fdt,
                   nofile, fd, log, nextOfd, entryFds>>

\* for (fd = 0; fd < maxfd; fd++) close(fd);
CloseLoop(p) ==
    /\ pc[p] = "closeall"
    /\ UNCHANGED netvars
    /\ fdt' = [fdt EXCEPT ![p] = CloseAll(@, maxfd[p])]
    /\ fd' = [fd EXCEPT ![p] = IF maxfd[p] > 0 THEN maxfd[p] ELSE 0]
    /\ pc' = [pc EXCEPT ![p] = "open"]
    /\ log' = [log EXCEPT ![p] = Append(@, "close-all")]
    /\ UNCHANGED <<ret, status, parent, pgid, sid, ctty, umask, cwd, nofile,
                   maxfd, nextOfd, entryFds>>

\* fd = open("/dev/null", O_RDWR); if (fd != STDIN_FILENO) return -1;
OpenNull(p) ==
    /\ pc[p] = "open"
    /\ UNCHANGED netvars
    /\ log' = [log EXCEPT ![p] = Append(@, "open")]
    /\ \/ /\ BelowLimit(p, LowestFree(p))
          /\ fd' = [fd EXCEPT ![p] = LowestFree(p)]
          /\ fdt' = [fdt EXCEPT ![p] =
                       Dup2(@ @@ (LowestFree(p) :> [path |-> NullPath, id |-> nextOfd]),
                            LowestFree(p), LowestFree(p))]
          /\ nextOfd' = nextOfd + 1
       \/ /\ fd' = [fd EXCEPT ![p] = -1]
          /\ UNCHANGED <<fdt, nextOfd>>
    /\ IF fd'[p] # STDIN_FILENO
       THEN Return(p, FailValue("open"))
       ELSE /\ pc' = [pc EXCEPT ![p] = "dup2out"]
            /\ UNCHANGED ret
    /\ UNCHANGED <<status, parent, pgid, sid, ctty, umask, cwd, nofile, maxfd,
                   entryFds>>

\* if (dup2(STDIN_FILENO, newfd) != newfd) return -1;
DupStd(p, at, newfd, step, nextpc) ==
    /\ pc[p] = at
    /\ log' = [log EXCEPT ![p] = Append(@, step)]
    /\ \/ /\ STDIN_FILENO \in OpenFds(p)
          /\ BelowLimit(p, newfd)
          /\ fdt' = [fdt EXCEPT ![p] = Dup2(@, STDIN_FILENO, newfd)]
          /\ IF nextpc = "returned"
             THEN Return(p, 0)
             ELSE /\ pc' = [pc EXCEPT ![p] = nextpc]
                  /\ UNCHANGED ret
       \/ /\ Return(p, FailValue(step))
          /\ UNCHANGED fdt
    /\ UNCHANGED <<status, parent, pgid, sid, ctty, umask, cwd, nofile, maxfd,
                   fd, nextOfd, entryFds>>

DupStdout(p) == DupStd(p, "dup2out", STDOUT_FILENO, "dup2-1", "dup2err") /\ UNCHANGED netvars

DupStderr_ontoStdout(p) ==
    DupStd(p, "dup2err", STDOUT_FILENO, "dup2-2", "returned") /\ UNCHANGED netvars

DupStderr(p) ==
    DupStd(p, "dup2err", STDERR_FILENO, "dup2-2", "returned") /\ UNCHANGED netvars

\* after becomeDeamon has returned, the process opens a terminal device
OpenTerminal(p) ==
    /\ pc[p] = "returned"
    /\ UNCHANGED netvars
    /\ BelowLimit(p, LowestFree(p))
    /\ fdt' = [fdt EXCEPT ![p] =
                 @ @@ (LowestFree(p) :> [path |-> TtyPath, id |-> nextOfd])]
    /\ nextOfd' = nextOfd + 1
    /\ ctty' = IF AcquiresCtty(p) THEN [ctty EXCEPT ![sid[p]] = TRUE] ELSE ctty
    /\ pc' = [pc EXCEPT ![p] = "later"]
    /\ UNCHANGED <<ret, status, parent, pgid, sid, umask, cwd, nofile, maxfd,
                   fd, log, entryFds>>

Next ==
    \E p \in PIDS :
        \/ Fork1(p)
        \/ Exit(p)
        \/ Setsid(p)
        \/ Fork2(p)
        \/ ClearUmask(p)
        \/ Chdir(p)
        \/ GetMaxFd(p)
        \/ CloseLoop(p)
        \/ OpenNull(p)
        \/ DupStdout(p)
        \/ DupStderr(p)
        \/ OpenTerminal(p)

Spec == Init /\ [][Next]_vars

\* ------------------------------------------------------------ vocabulary
IsChild(p) == parent[p] = CallerPid

IsGrandchild(p) == parent[p] # NoPid /\ parent[parent[p]] = CallerPid

Last(q) == q[Len(q)]

\* the statements after the second switch, in the process executing them
PostForkPcs == {"umask", "chdir", "sysconf", "closeall", "open", "dup2out", "dup2err"}

\* p went on past the second fork (case 0: break)
PastSecondFork(p) ==
    \/ pc[p] \in PostForkPcs
    \/ pc[p] \in {"returned", "later"} /\ Len(log[p]) > 3

Returned(p) == ret[p] # NoRet

\* p is at the moment becomeDeamon returned 0
Returned0(p) == ret[p] = <<0>>

AtReturn0(p) == pc[p] = "returned" /\ Returned0(p)

Failed(p) == Returned(p) /\ ret[p][1] < 0

\* the step order of the source text
StepOrder ==
    <<"fork", "setsid", "fork", "umask", "chdir", "close-all", "open",
      "dup2-1", "dup2-2">>

CheckedSteps == {"fork", "setsid", "open", "dup2-1", "dup2-2"}

\* the three failure conditions the interface distinguishes
FailClass(step) ==
    IF step = "fork" THEN "duplication"
    ELSE IF step = "setsid" THEN "session"
    ELSE "descriptor"

\* one checked step of each failure condition
ClassStep == [duplication |-> "fork", session |-> "setsid", descriptor |-> "open"]

\* ------------------------------------------------------------------- C1
\* C1: when both forks succeed, exactly one process goes on past the second
\* fork and it is the grandchild; the original caller and the intermediate
\* child are left with _exit(EXIT_SUCCESS) only and never return, so at most
\* one process returns 0.
C1_OnlyGrandchildContinues ==
    /\ Cardinality({p \in PIDS : Returned0(p)}) <= 1
    /\ \A p \in PIDS : PastSecondFork(p) => IsGrandchild(p)
    /\ \A g \in PIDS : IsGrandchild(g) =>
         /\ {p \in PIDS : PastSecondFork(p)} = {g}
         /\ \A p \in {CallerPid, parent[g]} :
              /\ pc[p] \in {"_exit", "exited"}
              /\ ~Returned(p)
              /\ pc[p] = "exited" => status[p] = <<EXIT_SUCCESS>>

C1_Witness ==
    \E g \in PIDS :
        /\ IsGrandchild(g)
        /\ AtReturn0(g)
        /\ pc[CallerPid] = "exited"
        /\ pc[parent[g]] = "exited"

\* ------------------------------------------------------------------- C2
\* C2 as stated: after becomeDeamon returns 0 the session id of the
\* returning process equals its own pid and it has no controlling terminal.
C2_SidIsOwnPid ==
    \A p \in PIDS : (Returned0(p)) => (sid[p] = p /\ ~HasCtty(p))

\* C2 amended: after becomeDeamon returns 0 the session id of the returning
\* process equals the pid of its parent, the intermediate child that called
\* setsid, and the process has no controlling terminal.
C2_SidIsParentPid ==
    \A p \in PIDS : (Returned0(p)) =>
        (sid[p] = parent[p] /\ IsChild(parent[p]) /\ ~HasCtty(p))

C2_Witness ==
    \E p \in PIDS :
        /\ AtReturn0(p)
        /\ ctty[sid[CallerPid]]
        /\ sid[p] # sid[CallerPid]

\* ------------------------------------------------------------------- C3
\* C3: the process that returned 0 is not the leader of its session, and
\* opening a terminal device later never gives it a controlling terminal.
C3_NeverAcquiresCtty ==
    \A p \in PIDS : (Returned0(p)) =>
        /\ p # sid[p]
        /\ ~AcquiresCtty(p)
        /\ pc[p] = "later" => ~HasCtty(p)

C3_Witness ==
    \E p \in PIDS :
        /\ Returned0(p)
        /\ pc[p] = "later"
        /\ \E n \in OpenFds(p) : fdt[p][n].path = TtyPath
        /\ ~HasCtty(p)

\* ------------------------------------------------------------------- C4
\* C4: when becomeDeamon returns 0, descriptors 0, 1 and 2 are open and all
\* three refer to one open file, which is /dev/null.
C4_StdOnNull ==
    \A p \in PIDS : AtReturn0(p) =>
        /\ {STDIN_FILENO, STDOUT_FILENO, STDERR_FILENO} \subseteq OpenFds(p)
        /\ fdt[p][STDOUT_FILENO] = fdt[p][STDIN_FILENO]
        /\ fdt[p][STDERR_FILENO] = fdt[p][STDIN_FILENO]
        /\ fdt[p][STDIN_FILENO].path = NullPath

C4_Witness ==
    \E p \in PIDS :
        /\ AtReturn0(p)
        /\ {STDIN_FILENO, STDOUT_FILENO, STDERR_FILENO} \subseteq entryFds
        /\ fdt[p][STDERR_FILENO].path = NullPath

C6_SetsidNeverByLeader ==
    \A p \in PIDS :
        /\ pc[p] = "setsid" => (IsChild(p) /\ pgid[p] # p /\ SetsidPermitted(p))
        /\ (log[p] # << >> /\ Last(log[p]) = "setsid") => ~Returned(p)

C6_Witness ==
    \E p \in PIDS :
        /\ IsChild(p)
        /\ pc[p] = "fork2"
        /\ sid[p] = p
        /\ pgid[CallerPid] = CallerPid

\* ------------------------------------------------------------------- C7
\* C7 as stated: the values returned for the three failure conditions are
\* pairwise different, so the value a failed call returns is not the value
\* of either other failure condition.
C7_DistinctFailureValues ==
    \A p \in PIDS : Failed(p) =>
        \A c \in (DOMAIN ClassStep) \ {FailClass(Last(log[p]))} :
            ret[p][1] # FailValue(ClassStep[c])

\* C7 amended: every failure condition of becomeDeamon is surfaced as the
\* same negative result -1, returned right after the checked step that
\* failed; the value tells the caller that a step failed, not which one.
C7_AllFailuresMinusOne ==
    \A p \in PIDS : Returned(p) =>
        /\ ret[p][1] \in {0, -1}
        /\ Last(log[p]) \in CheckedSteps
        /\ Returned0(p) => Last(log[p]) = "dup2-2"

C7_Witness ==
    \E p \in PIDS :
        /\ Failed(p)
        /\ FailClass(Last(log[p])) = "descriptor"
        /\ ret[p][1] = FailValue("fork")

\* ------------------------------------------------------------------- C8
\* C8: the steps run in the order fork, setsid, fork, umask, chdir,
\* close-all, open, dup2 to 1, dup2 to 2; a failing checked step returns a
\* negative value at once, no later step runs and the failing return leaves
\* every effect of the earlier steps in place; after a successful first fork
\* the original caller does nothing but _exit(EXIT_SUCCESS) and a failure of
\* a later step is returned in a descendant.
C8_OrderState ==
    \A p \in PIDS :
        /\ Len(log[p]) <= Len(StepOrder)
        /\ \A i \in 1..Len(log[p]) : log[p][i] = StepOrder[i]
        /\ Failed(p) => Last(log[p]) \in CheckedSteps
        /\ (Failed(p) /\ Len(log[p]) > 1) =>
              /\ p # CallerPid
              /\ pc[CallerPid] \in {"_exit", "exited"}
              /\ pc[CallerPid] = "exited" => status[CallerPid] = <<EXIT_SUCCESS>>
        /\ (Failed(p) /\ Len(log[p]) > 3) => (umask[p] = 0 /\ sid[p] = parent[p])

C8_OrderStep ==
    \A p \in PIDS :
        /\ Failed(p) => log'[p] = log[p]
        /\ (~Returned(p) /\ Returned(p)' /\ ret'[p][1] < 0) =>
              /\ Len(log'[p]) = Len(log[p]) + 1
              /\ sid'[p] = sid[p] /\ pgid'[p] = pgid[p]
              /\ umask'[p] = umask[p] /\ cwd'[p] = cwd[p]
              /\ fdt'[p] = fdt[p]

C9_OpenReturnsZero ==
    \A p \in PIDS : Len(log[p]) >= 7 =>
        /\ fd[p] \in {STDIN_FILENO, -1}
        /\ pc[p] \in {"dup2out", "dup2err"} => fd[p] = STDIN_FILENO
        /\ fd[p] # STDIN_FILENO =>
              /\ Failed(p)
              /\ Last(log[p]) = "open"
              /\ OpenFds(p) \cap {STDOUT_FILENO, STDERR_FILENO} \subseteq
                    {n \in entryFds : n >= maxfd[p]}

C9_Witness ==
    \E p \in PIDS :
        /\ pc[p] = "dup2out"
        /\ fd[p] = STDIN_FILENO
        /\ STDIN_FILENO \in entryFds
        /\ fdt[p][STDIN_FILENO].path = NullPath

\* ------------------------------------------------------------------ C10
\* C10: when becomeDeamon returns 0 the file-creation mask of the returning
\* process is 0 and its current working directory is the root directory.
C10_UmaskAndCwd ==
    \A p \in PIDS : AtReturn0(p) => (umask[p] = 0 /\ cwd[p] = RootDir)

\* ======================================================================
\* The byte transform of the echo servers
\* (unixDomainDgramServer.c:52-53, inetDomainDgramServer.c:65-66)
\* ======================================================================
MaxXformLen == 2

BYTES == 0..255

\* 'a', 'z', 'A', '1', '{' and a byte above 127
SampleBytes == {97, 122, 65, 49, 123, 225}

\* the buffers the transform is applied to: every single byte, and every
\* short string over the sample bytes
SeqsUpTo(S, n) == UNION {[1..k -> S] : k \in 0..n}

XformInputs == {<<b>> : b \in BYTES} \cup SeqsUpTo(SampleBytes, MaxXformLen)

ToUpper_shiftsAll(b) == IF b >= 97 THEN (b - 32) % 256 ELSE b

\* toupper((unsigned char) b) in the "C" locale, stored back into a char
ToUpper(b) == IF 97 <= b /\ b <= 122 THEN b - 32 ELSE b

\* for (j = 0; j < numBytes; j++) buf[j] = toupper((unsigned char) buf[j]);
UpperLoop(buf, numBytes) ==
    [j \in 1..Len(buf) |-> IF j <= numBytes THEN ToUpper(buf[j]) ELSE buf[j]]

XformInit ==
    /\ tIn \in XformInputs
    /\ tOnce = << >>
    /\ tTwice = << >>
    /\ tPc = "received"

\* the loop runs over the received bytes
XformApply ==
    /\ tPc = "received"
    /\ tOnce' = UpperLoop(tIn, Len(tIn))
    /\ tPc' = "once"
    /\ UNCHANGED <<tIn, tTwice, exceptXform>>

\* the transformed bytes are transformed again
XformAgain ==
    /\ tPc = "once"
    /\ tTwice' = UpperLoop(tOnce, Len(tOnce))
    /\ tPc' = "twice"
    /\ UNCHANGED <<tIn, tOnce, exceptXform>>

DaemonIdle ==
    /\ pc = [p \in PIDS |-> "none"]
    /\ ret = [p \in PIDS |-> NoRet]
    /\ status = [p \in PIDS |-> NoRet]
    /\ parent = [p \in PIDS |-> NoPid]
    /\ pgid = [p \in PIDS |-> NoPid]
    /\ sid = [p \in PIDS |-> NoPid]
    /\ ctty = [p \in PIDS |-> FALSE]
    /\ umask = [p \in PIDS |-> 0]
    /\ cwd = [p \in PIDS |-> RootDir]
    /\ fdt = [p \in PIDS |-> EmptyFdt]
    /\ nofile = [p \in PIDS |-> 0]
    /\ maxfd = [p \in PIDS |-> 0]
    /\ fd = [p \in PIDS |-> 0]
    /\ log = [p \in PIDS |-> << >>]
    /\ nextOfd = 1
    /\ entryFds = {}

SpecXformInit ==
    DaemonIdle /\ XformInit /\ DgramIdle /\ StreamIdle /\ ProgIdle /\ LineIdle

SpecXformNext == XformApply \/ XformAgain

SpecXform == SpecXformInit /\ [][SpecXformNext]_vars

\* the lowercase ASCII letters and their uppercase forms, by alphabet position
LowerCode == [k \in 1..26 |-> 96 + k]

UpperCode == [k \in 1..26 |-> 64 + k]

IsUpperOf(b, u) ==
    \/ \E k \in 1..26 : b = LowerCode[k] /\ u = UpperCode[k]
    \/ (\A k \in 1..26 : b # LowerCode[k]) /\ u = b

\* ------------------------------------------------------------------ C11
\* C11: the transform maps every byte 0..255 to its uppercase form when it
\* is a lowercase ASCII letter and to itself otherwise; the output is as
\* long as the input, and transforming twice gives what transforming once
\* gives.
C11_TransformUppercases ==
    /\ tPc \in {"once", "twice"} =>
         /\ Len(tOnce) = Len(tIn)
         /\ \A j \in 1..Len(tIn) : IsUpperOf(tIn[j], tOnce[j])
    /\ tPc = "twice" => tTwice = tOnce

C11_Witness ==
    /\ tPc = "twice"
    /\ tIn = <<122>>
    /\ tTwice = <<90>>

\* ======================================================================
\* The datagram echo server (unixDomainDgramServer.c, inetDomainDgramServer.c)
\* and its clients (unixDomainDgramClient.c, inetDomainDgramClient.c)
\* ======================================================================
\* "hi" and a message of BUF_SIZE + 1 bytes, "abcdefghijk"
ShortMsgs == {<<104, 105>>}

LongMsgs == {[j \in 1..n |-> 96 + j] : n \in {BUF_SIZE + 1}}

Msgs == ShortMsgs \cup LongMsgs

\* the message arguments of one client invocation
ArgLists == UNION {[1..k -> Msgs] : k \in 1..MaxMsgs}

\* a message of exactly BUF_SIZE bytes, "abcdefghij"
FullMsgs == {[j \in 1..BUF_SIZE |-> 96 + j]}

\* the message argument of the other client invocation, which sends one
EdgeArgLists == {<<m>> : m \in ShortMsgs \cup FullMsgs}

Min(a, b) == IF a < b THEN a ELSE b

Prefix(q, n) == [j \in 1..Min(n, Len(q)) |-> q[j]]

\* recvfrom(sfd, buf, BUF_SIZE, ...): the bytes stored in buf; what does not
\* fit of the datagram is discarded
RecvInto(buf, data) ==
    [j \in 1..Len(buf) |-> IF j <= Len(data) THEN data[j] ELSE buf[j]]

RecvCount_oneLess(data) == Min(Len(data), BUF_SIZE - 1)

\* the value recvfrom returns
RecvCount(data) == Min(Len(data), BUF_SIZE)

RecordSender_keepsFirst(old, from) == IF old = NoAddr THEN from ELSE old

\* recvfrom stores the sender of this datagram in claddr
RecordSender(old, from) == from

SendLength_wholeBuffer(numBytes) == BUF_SIZE

\* sendto(sfd, buf, numBytes, ...): the number of bytes of buf that are sent
SendLength(numBytes) == numBytes

LoopOver_early(j, args) == j >= Len(args)

\* the client's for loop over its message arguments has ended
LoopOver(j, args) == j > Len(args)

Drop(q, i) == [j \in 1..(Len(q) - 1) |-> IF j < i THEN q[j] ELSE q[j + 1]]

\* server and clients have created and bound their sockets
DgramInit ==
    /\ sPc = "recvfrom"
    /\ sBuf = [j \in 1..BUF_SIZE |-> 0]
    /\ sNum = 0
    /\ sClAddr = NoAddr
    /\ sQueue = << >>
    /\ cPc = [c \in Clients |-> "sendto"]
    /\ cJ = [c \in Clients |-> 1]
    /\ cArgs \in {[c \in Clients |-> IF c = 1 THEN a ELSE b] :
                    a \in ArgLists, b \in EdgeArgLists}
    /\ cQueue = [c \in Clients |-> << >>]
    /\ cResp = [c \in Clients |-> << >>]
    /\ gLog = << >>

\* numBytes = recvfrom(sfd, buf, BUF_SIZE, 0, &claddr, &len);
\* if (numBytes == -1) errExit("recvfrom");
SrvRecvfrom ==
    /\ sPc = "recvfrom"
    /\ \/ /\ sQueue # << >>
          /\ sBuf' = RecvInto(sBuf, Prefix(Head(sQueue).data, BUF_SIZE))
          /\ sNum' = RecvCount(Head(sQueue).data)
          /\ sClAddr' = RecordSender(sClAddr, Head(sQueue).from)
          /\ sQueue' = Tail(sQueue)
          /\ gLog' = Append(gLog, [ev |-> "recv", addr |-> Head(sQueue).from,
                                   data |-> Head(sQueue).data])
          /\ sPc' = "toupper"
       \/ /\ sPc' = "failed"
          /\ sNum' = -1
          /\ UNCHANGED <<sBuf, sClAddr, sQueue, gLog>>
    /\ UNCHANGED <<cPc, cJ, cArgs, cQueue, cResp, exceptDgram>>

\* for (j = 0; j < numBytes; j++) buf[j] = toupper((unsigned char) buf[j]);
SrvToupper ==
    /\ sPc = "toupper"
    /\ sBuf' = UpperLoop(sBuf, sNum)
    /\ sPc' = "sendto"
    /\ UNCHANGED <<sNum, sClAddr, sQueue, cPc, cJ, cArgs, cQueue, cResp, gLog,
                   exceptDgram>>

\* if (sendto(sfd, buf, numBytes, 0, &claddr, len) != numBytes) errExit(...);
SrvSendto ==
    /\ sPc = "sendto"
    /\ \/ /\ cQueue' = [cQueue EXCEPT ![sClAddr] =
                          Append(@, Prefix(sBuf, SendLength(sNum)))]
          /\ gLog' = Append(gLog, [ev |-> "send", addr |-> sClAddr,
                                   data |-> Prefix(sBuf, SendLength(sNum))])
          /\ sPc' = "recvfrom"
       \/ /\ sPc' = "failed"
          /\ UNCHANGED <<cQueue, gLog>>
    /\ UNCHANGED <<sBuf, sNum, sClAddr, sQueue, cPc, cJ, cArgs, cResp, exceptDgram>>

\* msgLen = strlen(argv[j]);
\* if (sendto(sfd, argv[j], msgLen, 0, &svaddr, ...) != msgLen) errExit(...);
CliSendto(c) ==
    /\ cPc[c] = "sendto"
    /\ ~LoopOver(cJ[c], cArgs[c])
    /\ \/ /\ sQueue' = Append(sQueue, [from |-> c, data |-> cArgs[c][cJ[c]]])
          /\ cPc' = [cPc EXCEPT ![c] = "recvfrom"]
       \/ /\ cPc' = [cPc EXCEPT ![c] = "failed"]
          /\ UNCHANGED sQueue
    /\ UNCHANGED <<sPc, sBuf, sNum, sClAddr, cJ, cArgs, cQueue, cResp, gLog,
                   exceptDgram>>

\* numBytes = recvfrom(sfd, resp, BUF_SIZE, 0, NULL, NULL);
\* if (numBytes == -1) errExit(...); printf("Response %d: %.*s\n", ...); j++
CliRecvfrom(c) ==
    /\ cPc[c] = "recvfrom"
    /\ \/ /\ cQueue[c] # << >>
          /\ cResp' = [cResp EXCEPT ![c] =
                         Append(@, Prefix(Head(cQueue[c]), BUF_SIZE))]
          /\ cQueue' = [cQueue EXCEPT ![c] = Tail(@)]
          /\ cJ' = [cJ EXCEPT ![c] = @ + 1]
          /\ cPc' = [cPc EXCEPT ![c] = "sendto"]
       \/ /\ cPc' = [cPc EXCEPT ![c] = "failed"]
          /\ UNCHANGED <<cResp, cQueue, cJ>>
    /\ UNCHANGED <<sPc, sBuf, sNum, sClAddr, sQueue, cArgs, gLog, exceptDgram>>

\* the loop over argv is over: exit(EXIT_SUCCESS);
CliExit(c) ==
    /\ cPc[c] = "sendto"
    /\ LoopOver(cJ[c], cArgs[c])
    /\ cPc' = [cPc EXCEPT ![c] = "done"]
    /\ UNCHANGED <<sPc, sBuf, sNum, sClAddr, sQueue, cJ, cArgs, cQueue, cResp,
                   gLog, exceptDgram>>

\* a datagram on its way to the server is lost
LoseRequest ==
    /\ \E i \in 1..Len(sQueue) : sQueue' = Drop(sQueue, i)
    /\ UNCHANGED <<sPc, sBuf, sNum, sClAddr, cPc, cJ, cArgs, cQueue, cResp,
                   gLog, exceptDgram>>

\* a reply on its way to a client is lost
LoseReply(c) ==
    /\ \E i \in 1..Len(cQueue[c]) :
         cQueue' = [cQueue EXCEPT ![c] = Drop(@, i)]
    /\ UNCHANGED <<sPc, sBuf, sNum, sClAddr, sQueue, cPc, cJ, cArgs, cResp,
                   gLog, exceptDgram>>

SpecDgramInit ==
    DaemonIdle /\ XformIdle /\ DgramInit /\ StreamIdle /\ ProgIdle /\ LineIdle

SpecDgramNext ==
    \/ SrvRecvfrom
    \/ SrvToupper
    \/ SrvSendto
    \/ LoseRequest
    \/ \E c \in Clients :
         \/ CliSendto(c)
         \/ CliRecvfrom(c)
         \/ CliExit(c)
         \/ LoseReply(c)

SpecDgram == SpecDgramInit /\ [][SpecDgramNext]_vars

\* ---- claims about the datagram echo server ----
Transform(m) == UpperLoop(m, Len(m))

ReplyToFull(m) == Transform(m)

ReplyToReceived(m) == Transform(Prefix(m, BUF_SIZE))

IsRecv(i) == gLog[i].ev = "recv"

IsSend(i) == gLog[i].ev = "send"

\* the server's receives and sends alternate and every send goes to the
\* sender of the receive just before it
EchoOrder ==
    /\ \A i \in 1..Len(gLog) :
         /\ IsRecv(i) => (i = 1 \/ IsSend(i - 1))
         /\ IsSend(i) => /\ i > 1
                         /\ IsRecv(i - 1)
                         /\ gLog[i].addr = gLog[i - 1].addr
    /\ sPc = "recvfrom" /\ gLog # << >> => IsSend(Len(gLog))
    /\ sPc \in {"toupper", "sendto"} => gLog # << >> /\ IsRecv(Len(gLog))

\* C12 as stated: every datagram the server receives is answered, before the
\* next one is received, by exactly one datagram to the recorded sender that
\* carries the byte transform of the full message that was sent.
C12_ReplyIsFullMessage ==
    /\ EchoOrder
    /\ \A i \in 1..Len(gLog) :
         IsSend(i) => gLog[i].data = ReplyToFull(gLog[i - 1].data)

\* C12 amended: every datagram the server receives is answered, before the
\* next one is received, by exactly one datagram to the recorded sender that
\* carries the byte transform of the first min(length, BUF_SIZE) bytes of the
\* message that was sent; only a failing sendto, which ends the server,
\* leaves a received datagram unanswered.
C12_ReplyIsReceivedPrefix ==
    /\ EchoOrder
    /\ \A i \in 1..Len(gLog) :
         IsSend(i) => gLog[i].data = ReplyToReceived(gLog[i - 1].data)
    /\ gLog # << >> /\ IsRecv(Len(gLog)) => sPc \in {"toupper", "sendto", "failed"}

C12_Witness ==
    /\ Len(gLog) = 4
    /\ Len(gLog[1].data) > BUF_SIZE
    /\ IsSend(2)
    /\ Len(gLog[2].data) = BUF_SIZE
    /\ IsSend(4)
    /\ gLog[4].data = <<72, 73>>

\* C18: the datagram server keeps no per-sender state: equal messages get
\* equal replies whatever was received before them, and each client's k-th
\* response is the reply to its own k-th message, however the two clients'
\* messages are interleaved; a client's socket never holds anything but the
\* reply to the message it is waiting on.  (The server's run is only ever
\* extended, so each reply is compared with the earlier ones when it is
\* the latest event.)
C18_NoPerSenderState ==
    /\ (gLog # << >> /\ IsSend(Len(gLog))) =>
         \A j \in 1..Len(gLog) :
            (IsSend(j) /\ gLog[j - 1].data = gLog[Len(gLog) - 1].data)
               => gLog[j].data = gLog[Len(gLog)].data
    /\ \A c \in Clients :
         /\ Len(cResp[c]) <= Len(cArgs[c])
         /\ \A k \in 1..Len(cResp[c]) : cResp[c][k] = ReplyToReceived(cArgs[c][k])
         /\ Len(cQueue[c]) <= 1
         /\ \A k \in 1..Len(cQueue[c]) :
              /\ cPc[c] \in {"recvfrom", "failed"}
              /\ cQueue[c][k] = ReplyToReceived(cArgs[c][cJ[c]])

C18_Witness ==
    /\ \A c \in Clients : cPc[c] = "done"
    /\ Len(gLog) = 6
    /\ gLog[1].addr # gLog[3].addr
    /\ gLog[1].data # gLog[3].data
    /\ gLog[5].addr = gLog[1].addr
    /\ gLog[5].data = gLog[3].data

\* ======================================================================
\* The connection-oriented server (unixDomainStreamServer.c) and its peers
\* (unixDomainStreamClient.c)
\* ======================================================================
\* "aBcDeF...": lower-case and upper-case letters in turn
StreamText == [j \in 1..26 |-> IF j % 2 = 1 THEN 96 + j ELSE 64 + j]

\* what a peer reads from its standard input
StreamInputs == {Prefix(StreamText, n) : n \in 0..MaxStream}

Suffix(q, n) == [j \in 1..(Len(q) - n) |-> q[j + n]]

\* the lowest descriptor number that is not open
LowestUnused(S) == CHOOSE n \in 0..Cardinality(S) : n \notin S /\ \A k \in 0..(n - 1) : k \in S

CloseFd_closesListener(S, n) == S \ {n, ListenFd}

CloseFd_leaks(S, n) == S

\* close(fd)
CloseFd(S, n) == S \ {n}

WriteTarget_peer == vCfd

\* the descriptor the server writes each chunk to
WriteTarget == STDOUT_FILENO

AfterRead_eofIsError(n) == IF n <= 0 THEN "failed" ELSE "write"

\* where the value of numRead takes the server
AfterRead(n) == IF n > 0 THEN "write" ELSE IF n = 0 THEN "close" ELSE "failed"

PeerHandles == vFds \ {STDIN_FILENO, STDOUT_FILENO, STDERR_FILENO, ListenFd}

\* the server has done socket, remove, bind and listen; no peer has connected
StreamInit ==
    /\ vPc = "accept"
    /\ vFds = {STDIN_FILENO, STDOUT_FILENO, STDERR_FILENO, ListenFd}
    /\ vCfd = 0
    /\ vConn = NoPeer
    /\ vBuf = << >>
    /\ vNumRead = 0
    /\ vWrote = 0
    /\ vErr = ""
    /\ vBacklog = << >>
    /\ vLog = << >>
    /\ pPc = [p \in Peers |-> "connect"]
    /\ pIn \in [Peers -> StreamInputs]
    /\ pSock = [p \in Peers |-> << >>]

\* errExit(msg): perror(msg); exit(EXIT_FAILURE); the exit closes every descriptor
SrvErrExit(msg) ==
    /\ vErr' = msg
    /\ vPc' = "failed"
    /\ vFds' = {}

\* cfd = accept(sfd, ...) returns the connection at the head of the backlog
SrvAcceptOk ==
    /\ vPc = "accept"
    /\ vBacklog # << >>
    /\ vConn' = Head(vBacklog)
    /\ vBacklog' = Tail(vBacklog)
    /\ vCfd' = LowestUnused(vFds)
    /\ vFds' = vFds \cup {LowestUnused(vFds)}
    /\ vLog' = Append(vLog, [ev |-> "accept", fd |-> LowestUnused(vFds),
                             peer |-> Head(vBacklog), data |-> << >>])
    /\ vPc' = "read"
    /\ UNCHANGED <<vBuf, vNumRead, vWrote, vErr, pPc, pIn, pSock, exceptStream>>

\* if ((cfd = accept(...)) == -1) errExit("Accept wrong");
SrvAcceptFail ==
    /\ vPc = "accept"
    /\ vCfd' = -1
    /\ SrvErrExit("Accept wrong")
    /\ UNCHANGED <<vConn, vBuf, vNumRead, vWrote, vBacklog, vLog, pPc, pIn, pSock,
                   exceptStream>>

ReadPeer_pending(conn, backlog) == IF backlog # << >> THEN Head(backlog) ELSE conn

\* read(cfd, ...) takes bytes from the connection accept returned, whatever
\* other connections are pending on the listening socket
ReadPeer(conn, backlog) == conn

\* numRead = read(cfd, buf, BUF_SIZE) > 0: some of the bytes that have arrived
SrvReadData ==
    /\ vPc = "read"
    /\ \E k \in 1..Min(Len(pSock[ReadPeer(vConn, vBacklog)]), STREAM_BUF_SIZE) :
         /\ vBuf' = Prefix(pSock[ReadPeer(vConn, vBacklog)], k)
         /\ vNumRead' = k
         /\ pSock' = [pSock EXCEPT ![ReadPeer(vConn, vBacklog)] = Suffix(@, k)]
         /\ vLog' = Append(vLog, [ev |-> "read", fd |-> vCfd, peer |-> ReadPeer(vConn, vBacklog),
                                  data |-> Prefix(pSock[ReadPeer(vConn, vBacklog)], k)])
    /\ vPc' = AfterRead(vNumRead')
    /\ UNCHANGED <<vFds, vCfd, vConn, vWrote, vErr, vBacklog, pPc, pIn, exceptStream>>

\* numRead = read(cfd, buf, BUF_SIZE) == 0: the peer has closed its end and
\* everything it sent has been read; numRead is not -1, control reaches close
SrvReadEof ==
    /\ vPc = "read"
    /\ pSock[ReadPeer(vConn, vBacklog)] = << >>
    /\ pPc[ReadPeer(vConn, vBacklog)] \in {"done", "failed"}
    /\ vNumRead' = 0
    /\ vLog' = Append(vLog, [ev |-> "read", fd |-> vCfd, peer |-> ReadPeer(vConn, vBacklog),
                             data |-> << >>])
    /\ vPc' = AfterRead(vNumRead')
    /\ UNCHANGED <<vFds, vCfd, vConn, vBuf, vWrote, vErr, vBacklog, pPc, pIn, pSock,
                   exceptStream>>

\* read returns -1: if (numRead == -1) errExit("read wrong");
SrvReadFail ==
    /\ vPc = "read"
    /\ vNumRead' = -1
    /\ SrvErrExit("read wrong")
    /\ UNCHANGED <<vCfd, vConn, vBuf, vWrote, vBacklog, vLog, pPc, pIn, pSock,
                   exceptStream>>

\* write(STDOUT_FILENO, buf, numRead) == numRead
SrvWriteAll ==
    /\ vPc = "write"
    /\ vWrote' = vNumRead
    /\ vLog' = Append(vLog, [ev |-> "write", fd |-> WriteTarget, peer |-> vConn,
                             data |-> Prefix(vBuf, vNumRead)])
    /\ vPc' = "read"
    /\ UNCHANGED <<vFds, vCfd, vConn, vBuf, vNumRead, vErr, vBacklog, pPc, pIn, pSock,
                   exceptStream>>

\* write returns fewer bytes than numRead (k of them were written) or -1:
\* if (write(...) != numRead) errExit("write wrong");
SrvWriteShort ==
    /\ vPc = "write"
    /\ \E k \in {-1} \cup 1..(vNumRead - 1) :
         /\ vWrote' = k
         /\ vLog' = Append(vLog, [ev |-> "write", fd |-> WriteTarget,
                                  peer |-> vConn, data |-> Prefix(vBuf, k)])
    /\ SrvErrExit("write wrong")
    /\ UNCHANGED <<vCfd, vConn, vBuf, vNumRead, vBacklog, pPc, pIn, pSock,
                   exceptStream>>

\* close(cfd) succeeds; the loop goes back to accept
SrvCloseOk ==
    /\ vPc = "close"
    /\ vFds' = CloseFd(vFds, vCfd)
    /\ vLog' = Append(vLog, [ev |-> "close", fd |-> vCfd, peer |-> vConn,
                             data |-> << >>])
    /\ vPc' = "accept"
    /\ UNCHANGED <<vCfd, vConn, vBuf, vNumRead, vWrote, vErr, vBacklog, pPc, pIn,
                   pSock, exceptStream>>

\* if (close(cfd) == -1) errExit("close wrong");
SrvCloseFail ==
    /\ vPc = "close"
    /\ SrvErrExit("close wrong")
    /\ UNCHANGED <<vCfd, vConn, vBuf, vNumRead, vWrote, vBacklog, vLog, pPc, pIn,
                   pSock, exceptStream>>

\* connect(cfd, ...) succeeds while the server is listening
PeerConnectOk(p) ==
    /\ pPc[p] = "connect"
    /\ vPc # "failed"
    /\ vBacklog' = Append(vBacklog, p)
    /\ pPc' = [pPc EXCEPT ![p] = "send"]
    /\ UNCHANGED <<vPc, vFds, vCfd, vConn, vBuf, vNumRead, vWrote, vErr, vLog, pIn,
                   pSock, exceptStream>>

\* socket or connect returns -1: errExit(...)
PeerConnectFail(p) ==
    /\ pPc[p] = "connect"
    /\ pPc' = [pPc EXCEPT ![p] = "failed"]
    /\ UNCHANGED <<vPc, vFds, vCfd, vConn, vBuf, vNumRead, vWrote, vErr, vBacklog,
                   vLog, pIn, pSock, exceptStream>>

\* numRead = read(STDIN_FILENO, buf, BUF_SIZE) > 0 and
\* write(cfd, buf, numRead) == numRead
PeerSendAll(p) ==
    /\ pPc[p] = "send"
    /\ vPc # "failed"
    /\ \E k \in 1..Min(Len(pIn[p]), STREAM_BUF_SIZE) :
         /\ pSock' = [pSock EXCEPT ![p] = @ \o Prefix(pIn[p], k)]
         /\ pIn' = [pIn EXCEPT ![p] = Suffix(@, k)]
    /\ UNCHANGED <<vPc, vFds, vCfd, vConn, vBuf, vNumRead, vWrote, vErr, vBacklog,
                   vLog, pPc, exceptStream>>

\* the write sends w < numRead bytes or returns -1, or the read of standard
\* input returns -1: errExit(...)
PeerSendShort(p) ==
    /\ pPc[p] = "send"
    /\ \E w \in {0} \cup 1..(Min(Len(pIn[p]), STREAM_BUF_SIZE) - 1) :
         pSock' = [pSock EXCEPT ![p] = @ \o Prefix(pIn[p], w)]
    /\ pPc' = [pPc EXCEPT ![p] = "failed"]
    /\ UNCHANGED <<vPc, vFds, vCfd, vConn, vBuf, vNumRead, vWrote, vErr, vBacklog,
                   vLog, pIn, exceptStream>>

\* read(STDIN_FILENO, ...) returns 0: return EXIT_SUCCESS closes the socket
PeerExit(p) ==
    /\ pPc[p] = "send"
    /\ pIn[p] = << >>
    /\ pPc' = [pPc EXCEPT ![p] = "done"]
    /\ UNCHANGED <<vPc, vFds, vCfd, vConn, vBuf, vNumRead, vWrote, vErr, vBacklog,
                   vLog, pIn, pSock, exceptStream>>

SrvProgress ==
    SrvAcceptOk \/ SrvReadData \/ SrvReadEof \/ SrvWriteAll \/ SrvCloseOk

PeerProgress(p) == PeerConnectOk(p) \/ PeerSendAll(p) \/ PeerExit(p)

SpecStreamInit ==
    DaemonIdle /\ XformIdle /\ DgramIdle /\ StreamInit /\ ProgIdle /\ LineIdle

SpecStreamNext ==
    \/ SrvAcceptOk
    \/ SrvAcceptFail
    \/ SrvReadData
    \/ SrvReadEof
    \/ SrvReadFail
    \/ SrvWriteAll
    \/ SrvWriteShort
    \/ SrvCloseOk
    \/ SrvCloseFail
    \/ \E p \in Peers :
         \/ PeerConnectOk(p)
         \/ PeerConnectFail(p)
         \/ PeerSendAll(p)
         \/ PeerSendShort(p)
         \/ PeerExit(p)

SpecStream == SpecStreamInit /\ [][SpecStreamNext]_vars

\* a call that can return does return, and a peer that can go on does go on
SpecStreamFair ==
    /\ SpecStream
    /\ WF_vars(SrvProgress)
    /\ \A p \in Peers : WF_vars(PeerProgress(p))

\* ---- claims about the connection-oriented server ----
IsEv(i, e) == vLog[i].ev = e

IsChunkRead(i) == IsEv(i, "read") /\ vLog[i].data # << >>

NumEv(e) == Cardinality({i \in 1..Len(vLog) : IsEv(i, e)})

\* every chunk read is followed by one write and every write follows the
\* read of its chunk
ReadsAndWritesPair ==
    /\ \A i \in 1..Len(vLog) :
         /\ IsEv(i, "write") => i > 1 /\ IsChunkRead(i - 1)
         /\ IsChunkRead(i) /\ i < Len(vLog) => IsEv(i + 1, "write")
    /\ vLog # << >> /\ IsChunkRead(Len(vLog)) => vPc = "write"

\* C13 as stated: while serving, each chunk read from the peer is passed
\* through the byte transform and written back to that same peer.
C13_ChunkTransformedToPeer ==
    /\ ReadsAndWritesPair
    /\ \A i \in 1..Len(vLog) :
         (IsEv(i, "write") /\ vPc # "failed")
            => /\ vLog[i].fd = vLog[i - 1].fd
               /\ vLog[i].data = Transform(vLog[i - 1].data)

\* C13 amended: while serving, each chunk read from the peer is written,
\* unchanged, to the server's standard output; it is not passed through the
\* byte transform and nothing is written to the peer.  This repeats until a
\* read returns zero bytes or fails, or until a write is short or fails.
C13_ChunkCopiedToStdout ==
    /\ ReadsAndWritesPair
    /\ \A i \in 1..Len(vLog) :
         /\ IsEv(i, "read") => /\ i > 1
                                /\ vLog[i].fd # STDOUT_FILENO
                                /\ \E j \in 1..(i - 1) :
                                     /\ IsEv(j, "accept")
                                     /\ vLog[j].fd = vLog[i].fd
                                     /\ vLog[j].peer = vLog[i].peer
                                     /\ \A k \in (j + 1)..(i - 1) : ~IsEv(k, "close")
         /\ IsEv(i, "write") =>
              /\ vLog[i].fd = STDOUT_FILENO
              /\ \/ vLog[i].data = vLog[i - 1].data
                 \/ /\ i = Len(vLog)
                    /\ vPc = "failed"
                    /\ vErr = "write wrong"
                    /\ Len(vLog[i].data) < Len(vLog[i - 1].data)
                    /\ vLog[i].data = Prefix(vLog[i - 1].data, Len(vLog[i].data))
         /\ IsEv(i, "read") /\ i < Len(vLog) /\ ~IsChunkRead(i) => IsEv(i + 1, "close")

C13_Witness ==
    /\ vPc = "accept"
    /\ NumEv("close") = 2
    /\ \E i \in 1..Len(vLog) : IsEv(i, "write") /\ vLog[i].data = <<97, 66>>
    /\ \E i \in 1..Len(vLog) : IsEv(i, "write") /\ vLog[i].data = <<66>>

\* C14: a read that returns zero bytes ends the serving of that connection
\* without an error being reported: the server goes on to close the peer
\* handle, and once it is closed the server is back in accept, still running,
\* with the listening handle open.
C14_EofEndsServingQuietly ==
    /\ [][(vPc = "read" /\ vLog' # vLog /\ vNumRead' = 0)
            => (vPc' = "close" /\ vErr' = "" /\ vFds' = vFds)]_vars
    /\ [][(vPc = "close" /\ vPc' \notin {"close", "failed"})
            => /\ vPc' = "accept"
               /\ vErr' = ""
               /\ vFds' = vFds \ {vCfd}
               /\ ListenFd \in vFds']_vars

C14_Witness ==
    /\ vPc = "accept"
    /\ vErr = ""
    /\ Len(vLog) = 3
    /\ IsEv(2, "read")
    /\ vLog[2].data = << >>
    /\ IsEv(3, "close")
    /\ vCfd \notin vFds

\* C15 as stated: a write that delivers fewer bytes than requested is retried
\* until the whole buffer has been sent; it never ends the process and never
\* drops data.
C15_PartialWriteRetried ==
    (0 < vWrote /\ vWrote < vNumRead) => vPc # "failed"

\* C16: the server holds at most one peer handle: none while it waits in
\* accept, exactly one (the one accept returned) while it serves, and the
\* handle of one connection is closed before the next accept.
C16_AtMostOnePeerHandle ==
    /\ Cardinality(PeerHandles) <= 1
    /\ vPc = "accept" => PeerHandles = {}
    /\ vPc \in {"read", "write", "close"} => PeerHandles = {vCfd}
    /\ \A i \in 1..Len(vLog) :
         IsEv(i, "accept") /\ i > 1 => IsEv(i - 1, "close")

C16_Witness ==
    /\ vPc = "write"
    /\ NumEv("close") = 1
    /\ NumEv("accept") = 2
    /\ PeerHandles = {vCfd}

\* C17: the server has no terminal state of its own: it stops only when an
\* operation fails and errExit ends the process; while it runs the listening
\* handle stays open, and with every call that can return returning, either
\* an operation fails or the server ends up blocked in accept for good, every
\* connection served and closed.
C17_NoTerminalState ==
    /\ [](vPc \in {"accept", "read", "write", "close", "failed"})
    /\ [](vPc = "failed" => vErr # "")
    /\ [](vPc # "failed" => ListenFd \in vFds)
    /\ \/ <>(vPc = "failed")
       \/ <>[](vPc = "accept" /\ vBacklog = << >> /\ PeerHandles = {})

C17_Witness ==
    /\ vPc = "accept"
    /\ \A p \in Peers : pPc[p] = "done"
    /\ NumEv("close") = 2
    /\ ListenFd \in vFds
    /\ vErr = ""

\* ======================================================================
\* The control flow of the example programs
\* ======================================================================
UnixServers == {"unixDomainDgramServer", "unixDomainStreamServer"}

Servers == UnixServers \cup {"inetDomainDgramServer"}

DgramClients == {"unixDomainDgramClient", "inetDomainDgramClient"}

\* the programs whose main takes argc and argv
ArgClients == DgramClients \cup {"test_client"}

Programs == Servers \cup ArgClients \cup {"unixDomainStreamClient"}

ArgWords == {"--help", "host", "msg"}

\* argv[1..argc-1]
ArgvSet == SeqsUpTo(ArgWords, MaxArgs)

Argc(argv) == Len(argv) + 1

MinArgc_sameForAll(prog) == 2

\* the n of each program's test argc < n
MinArgc(prog) == IF prog = "inetDomainDgramClient" THEN 3 ELSE 2

\* argc < n || strcmp(argv[1], "--help") == 0
UsageCase(prog, argv) == Argc(argv) < MinArgc(prog) \/ argv[1] = "--help"

\* the number of iterations of a datagram client's loop over argv
NumMsgs(prog, argv) ==
    IF prog = "unixDomainDgramClient" THEN Argc(argv) - 1 ELSE Argc(argv) - 2

FirstSite(prog) == IF prog = "test_client" THEN "getaddrinfo" ELSE "socket"

\* the library call made at a place of a program
OpOf(site) == IF site = "write2" THEN "write" ELSE site

Ops == {"getaddrinfo", "socket", "remove", "bind", "listen", "accept", "connect",
        "read", "write", "recvfrom", "sendto", "close"}

\* the ways a call can fail, by errno
ErrnosOf(op) ==
    IF op = "remove" THEN {"ENOENT", "EOTHER"}
    ELSE IF op = "bind" THEN {"EADDRINUSE", "EOTHER"}
    ELSE IF op = "getaddrinfo" THEN {"EAI_NONAME", "EAI_SYSTEM"}
    ELSE IF op \in {"accept", "connect", "read", "write", "recvfrom", "sendto"}
         THEN {"EINTR", "EOTHER"}
    ELSE {"EOTHER"}

\* the results of a call: success, end of input for read, a short count for
\* write, or a failure
ResultsOf(op) ==
    {"ok"} \cup ErrnosOf(op)
           \cup (IF op = "read" THEN {"eof"} ELSE {})
           \cup (IF op = "write" THEN {"short"} ELSE {})

IsFailure(res) == res \notin {"ok", "eof"}

\* a system call that returns -1 sets errno; read returning 0, a short
\* count from write and a getaddrinfo error other than EAI_SYSTEM leave errno
\* as it was
SetsErrno(res) == res \notin {"ok", "eof", "short", "EAI_NONAME"}

\* the programs with a socket path of their own in the file system: the
\* servers' SV_SOCK_PATH and SOCKET_PATH, the client's /tmp/ud_ucase_cl.<pid>
PathPrograms == UnixServers \cup {"unixDomainDgramClient"}

\* the results a call can have with the file system as it is: remove succeeds
\* on an entry that exists and fails with ENOENT on one that does not; bind
\* of a UNIX-domain socket creates the entry and fails with EADDRINUSE when
\* it exists
Possible(prog, op, res, path) ==
    IF op = "remove" THEN (res = "ok" => path) /\ (res = "ENOENT" => ~path)
    ELSE IF op = "bind" /\ prog \in PathPrograms
         THEN (res = "ok" => ~path) /\ (res = "EADDRINUSE" => path)
    ELSE TRUE

PathAfter_keepsEntry(prog, op, res, path) ==
    IF prog \in PathPrograms /\ op = "bind" /\ res = "ok" THEN TRUE ELSE path

\* the entry at the program's socket path after a call
PathAfter(prog, op, res, path) ==
    IF prog \in PathPrograms /\ op = "remove" /\ res = "ok" THEN FALSE
    ELSE IF prog \in PathPrograms /\ op = "bind" /\ res = "ok" THEN TRUE
    ELSE path

\* exit(EXIT_FAILURE) in the stream programs, exit(errno) in the others
ErrExitStatus(prog) ==
    IF prog \in {"unixDomainStreamServer", "unixDomainStreamClient"}
    THEN "EXIT_FAILURE" ELSE "errno"

ErrExit(prog) == [to |-> "exited", diag |-> TRUE, status |-> ErrExitStatus(prog)]

Go(site) == [to |-> site, diag |-> FALSE, status |-> "none"]

Done(st) == [to |-> "exited", diag |-> FALSE, status |-> st]

CloseCandidate_leaks(socks, cand) == socks

\* close(cfd) of the candidate whose connect failed
CloseCandidate(socks, cand) == socks \ {cand}

RemoveTolerated_any(res) == TRUE

\* remove(path) == -1 && errno != ENOENT is the servers' test for failure
RemoveTolerated(res) == res = "ENOENT"

\* test_client: the candidate address did not work; try the next one, or
\* give up when rp == NULL
NextCandidate ==
    IF aCand < aCands THEN Go("socket")
    ELSE [to |-> "exited", diag |-> TRUE, status |-> "EXIT_FAILURE"]

HandleTestClient(site, res) ==
    CASE site = "getaddrinfo" -> IF res = "ok" THEN Go("socket")
                                 ELSE ErrExit("test_client")
      [] site = "socket" -> IF res = "ok" THEN Go("connect") ELSE NextCandidate
      [] site = "connect" -> IF res = "ok" THEN Go("write") ELSE NextCandidate
      [] site = "write" -> IF res = "ok" THEN Go("write2")
                           ELSE ErrExit("test_client")
      [] site = "write2" -> IF res = "ok" THEN Go("read")
                            ELSE ErrExit("test_client")
      [] site = "read" -> IF res = "ok" THEN Done("0")
                          ELSE IF res = "EINTR" THEN Go("read")
                          ELSE ErrExit("test_client")

AfterSocket_skipsRemove(prog) ==
    IF prog \in Servers \cup {"unixDomainDgramClient"} THEN "bind"
    ELSE IF prog = "inetDomainDgramClient" THEN "sendto"
    ELSE "connect"

\* the call a program makes after socket
AfterSocket(prog) ==
    IF prog \in UnixServers THEN "remove"
    ELSE IF prog \in {"inetDomainDgramServer", "unixDomainDgramClient"} THEN "bind"
    ELSE IF prog = "inetDomainDgramClient" THEN "sendto"
    ELSE "connect"

\* where a program goes after a call that did not fail
OnSuccess(prog, site, res) ==
    CASE site = "socket" -> Go(AfterSocket(prog))
      [] site = "remove" -> Go("bind")
      [] site = "bind" ->
           IF prog = "unixDomainStreamServer" THEN Go("listen")
           ELSE IF prog = "unixDomainDgramClient" THEN Go("sendto")
           ELSE Go("recvfrom")
      [] site = "listen" -> Go("accept")
      [] site = "accept" -> Go("read")
      [] site = "connect" -> Go("read")
      [] site = "read" ->
           IF res = "ok" THEN Go("write")
           ELSE IF prog = "unixDomainStreamServer" THEN Go("close")
           ELSE Done("0")
      [] site = "write" -> Go("read")
      [] site = "close" -> Go("accept")
      [] site = "sendto" -> IF prog \in Servers THEN Go("recvfrom")
                            ELSE Go("recvfrom")
      [] site = "recvfrom" ->
           IF prog \in Servers THEN Go("sendto")
           ELSE IF aJ + 1 < NumMsgs(prog, aArgv) THEN Go("sendto")
           ELSE IF prog = "unixDomainDgramClient" THEN Go("remove")
           ELSE Done("0")

\* what a program does with the result of the call at a place
Handle(prog, site, res) ==
    IF prog = "test_client" THEN HandleTestClient(site, res)
    ELSE IF site = "remove" /\ prog = "unixDomainDgramClient" THEN Done("0")
    ELSE IF site = "remove" /\ IsFailure(res) /\ RemoveTolerated(res) THEN Go("bind")
    ELSE IF IsFailure(res) THEN ErrExit(prog)
    ELSE OnSuccess(prog, site, res)

\* test_client's open sockets, by candidate address: socket opens one,
\* close(cfd) after a failed connect releases it, exit releases all
SocksAfter(prog, op, res, to) ==
    IF prog # "test_client" THEN aSocks
    ELSE IF to = "exited" THEN {}
    ELSE IF op = "socket" /\ res = "ok" THEN aSocks \cup {aCand}
    ELSE IF op = "connect" /\ res # "ok" THEN CloseCandidate(aSocks, aCand)
    ELSE aSocks

ProgInit ==
    /\ aProg \in Programs
    /\ aArgv \in ArgvSet
    /\ aCands \in 1..MaxCands
    /\ aPc = "start"
    /\ aJ = 0
    /\ aCand = 1
    /\ aTrace = << >>
    /\ aUsage = FALSE
    /\ aStatus = "none"
    /\ aPath \in (IF aProg \in PathPrograms THEN BOOLEAN ELSE {FALSE})
    /\ aSocks = {}
    /\ aErrno = "0"

\* if (argc < n || strcmp(argv[1], "--help") == 0) { printf(usage); exit(0); }
\* in the programs that take arguments; the others ignore them
CheckArgs ==
    /\ aPc = "start"
    /\ IF aProg \in ArgClients /\ UsageCase(aProg, aArgv)
       THEN /\ aUsage' = TRUE
            /\ aPc' = "exited"
            /\ aStatus' = "0"
       ELSE /\ aPc' = FirstSite(aProg)
            /\ UNCHANGED <<aUsage, aStatus>>
    /\ UNCHANGED <<aProg, aArgv, aCands, aJ, aCand, aTrace, aPath, aSocks, aErrno,
                   exceptProg>>

\* the program makes the call it has reached and acts on the result
Call(op) ==
    /\ aPc \notin {"start", "exited"}
    /\ OpOf(aPc) = op
    /\ Len(aTrace) < MaxOps
    /\ \E res \in ResultsOf(op) :
         /\ Possible(aProg, op, res, aPath)
         /\ aPc' = Handle(aProg, aPc, res).to
         /\ aStatus' = Handle(aProg, aPc, res).status
         /\ aTrace' = Append(aTrace, [op |-> op, res |-> res, cand |-> aCand,
                                      diag |-> Handle(aProg, aPc, res).diag])
         /\ aPath' = PathAfter(aProg, op, res, aPath)
         /\ aErrno' = IF SetsErrno(res) THEN res ELSE aErrno
         /\ aSocks' = SocksAfter(aProg, op, res, Handle(aProg, aPc, res).to)
         /\ aJ' = IF aProg \in DgramClients /\ op = "recvfrom" /\ res = "ok"
                  THEN aJ + 1 ELSE aJ
         /\ aCand' = IF /\ aProg = "test_client"
                        /\ op \in {"socket", "connect"}
                        /\ IsFailure(res)
                     THEN aCand + 1 ELSE aCand
    /\ UNCHANGED <<aProg, aArgv, aCands, aUsage, exceptProg>>

SpecProgInit ==
    DaemonIdle /\ XformIdle /\ DgramIdle /\ StreamIdle /\ ProgInit /\ LineIdle

SpecProgNext ==
    \/ CheckArgs
    \/ \E op \in Ops : Call(op)

SpecProg == SpecProgInit /\ [][SpecProgNext]_vars

\* ---- claims about the programs' control flow ----
Exited == aPc = "exited"

\* the i-th call of the run failed, a diagnostic was printed, the process
\* ended with an error status and no further call was made
FatalAt(i) ==
    /\ i = Len(aTrace)
    /\ aTrace[i].diag
    /\ Exited
    /\ aStatus \in {"errno", "EXIT_FAILURE"}

\* the call after the i-th one, when there is one, is op
ThenOnly(i, op) == i < Len(aTrace) => aTrace[i + 1].op = op

\* a UNIX-domain server's remove found no file: nothing is printed and the
\* program goes on to bind
MissingFileAt(i) ==
    /\ aProg \in UnixServers
    /\ aTrace[i].op = "remove"
    /\ aTrace[i].res = "ENOENT"
    /\ ~aTrace[i].diag
    /\ ThenOnly(i, "bind")
    /\ i = Len(aTrace) => aPc = "bind"

\* test_client: socket or connect failed for one candidate address; nothing is
\* printed for it, and the program tries the next candidate or, with none
\* left, prints that it could not connect and exits with EXIT_FAILURE
CandidateFailedAt(i) ==
    /\ aProg = "test_client"
    /\ aTrace[i].op \in {"socket", "connect"}
    /\ ThenOnly(i, "socket")
    /\ i = Len(aTrace) => \/ aPc = "socket" /\ ~aTrace[i].diag
                          \/ Exited /\ aStatus = "EXIT_FAILURE" /\ aCand > aCands

\* test_client: readLine calls read again after EINTR
InterruptedReadAt(i) ==
    /\ aProg = "test_client"
    /\ aTrace[i].op = "read"
    /\ aTrace[i].res = "EINTR"
    /\ ~aTrace[i].diag
    /\ ThenOnly(i, "read")
    /\ i = Len(aTrace) => aPc = "read"

\* the UNIX datagram client does not look at the result of its last remove
UncheckedRemoveAt(i) ==
    /\ aProg = "unixDomainDgramClient"
    /\ aTrace[i].op = "remove"
    /\ ~aTrace[i].diag
    /\ i = Len(aTrace)
    /\ Exited
    /\ aStatus = "0"

\* C19 as stated: in every program the first call that fails ends the process
\* right after a diagnostic: it is the last call the program makes.
C19_FirstFailureIsFatal ==
    \A i \in 1..Len(aTrace) : IsFailure(aTrace[i].res) => FatalAt(i)

\* C19 amended: a call that fails, or a write that comes up short, ends the
\* process right after a diagnostic and is the last call the program makes,
\* except that a UNIX-domain server's remove failing with ENOENT is followed
\* by bind, test_client moves to the next candidate address after a failed
\* socket or connect and retries a read interrupted by a signal, and the
\* UNIX datagram client exits with status 0 whatever its last remove returns.
C19_FailureIsFatalButFor ==
    \A i \in 1..Len(aTrace) :
       IsFailure(aTrace[i].res) =>
          \/ FatalAt(i)
          \/ MissingFileAt(i)
          \/ CandidateFailedAt(i)
          \/ InterruptedReadAt(i)
          \/ UncheckedRemoveAt(i)

C19_Witness ==
    /\ aProg = "unixDomainStreamServer"
    /\ Len(aTrace) = 8
    /\ aTrace[2].res = "ENOENT"
    /\ aTrace[7].op = "write"
    /\ aTrace[8].op = "read"
    /\ aTrace[8].res = "EINTR"
    /\ Exited

\* the least number of arguments after the program name: a message, a host
\* and a message, a host
ClaimedMinArgs(prog) == IF prog = "inetDomainDgramClient" THEN 2 ELSE 1

\* C20: a client that takes arguments and is given "--help" as its first
\* argument, or fewer arguments than it needs, prints its usage line and
\* exits with status 0 without having created a socket or made any other call.
C20_UsageExitsZero ==
    (/\ aProg \in ArgClients
     /\ aPc # "start"
     /\ \/ Len(aArgv) < ClaimedMinArgs(aProg)
        \/ aArgv[1] = "--help")
       => /\ Exited
          /\ aUsage
          /\ aStatus = "0"
          /\ aTrace = << >>

C20_Witness ==
    /\ aProg = "inetDomainDgramClient"
    /\ aArgv = <<"host">>
    /\ Exited
    /\ aUsage
    /\ aStatus = "0"

\* the i-th event of the server's run is a reply that is cut at BUF_SIZE
CutAtBufSize(i) ==
    /\ Len(gLog[i].data) = Min(Len(gLog[i - 1].data), BUF_SIZE)
    /\ \A j \in 1..Len(gLog[i].data) :
         IsUpperOf(gLog[i - 1].data[j], gLog[i].data[j])
    /\ (gLog[i].data = Transform(gLog[i - 1].data))
          <=> (Len(gLog[i - 1].data) <= BUF_SIZE)

\* C23: the datagram servers receive into BUF_SIZE = 10 bytes: every reply has
\* min(message length, BUF_SIZE) bytes, they are the transform of the first
\* BUF_SIZE bytes of the message, and the reply is the transform of the whole
\* message exactly when the message has at most BUF_SIZE bytes.  (The run is
\* only ever extended, so it is enough to look at each reply when it is the
\* latest event.)
C23_ReplyCutAtBufSize ==
    (gLog # << >> /\ IsSend(Len(gLog))) => CutAtBufSize(Len(gLog))

C23_Witness ==
    /\ Len(gLog) = 4
    /\ IsSend(2)
    /\ Len(gLog[1].data) = BUF_SIZE + 1
    /\ Len(gLog[2].data) = BUF_SIZE
    /\ IsSend(4)
    /\ Len(gLog[3].data) = BUF_SIZE
    /\ gLog[4].data = Transform(gLog[3].data)

\* client c has sent a message and nothing is on its way: its request is not
\* waiting at the server, the server is not working on it, and no reply is
\* waiting at the client's socket
Stranded(c) ==
    /\ cPc[c] = "recvfrom"
    /\ cQueue[c] = << >>
    /\ \A i \in 1..Len(sQueue) : sQueue[i].from # c
    /\ ~(sPc \in {"toupper", "sendto"} /\ sClAddr = c)

\* C22: the datagram clients have no timeout: a client sends message j + 1
\* only after a datagram has arrived for message j, it ends normally only with
\* a response for every message, and a client whose request or reply was lost
\* stays in recvfrom, with no further message sent, for as long as recvfrom
\* does not fail.
C22_BlocksUntilReply ==
    /\ [](\A c \in Clients :
            /\ cPc[c] # "off" => cJ[c] = Len(cResp[c]) + 1
            /\ cPc[c] = "done" => Len(cResp[c]) = Len(cArgs[c]))
    /\ [][\A c \in Clients :
            Stranded(c) => \/ Stranded(c)' /\ cJ'[c] = cJ[c]
                           \/ cPc'[c] = "failed"]_vars

C22_Witness ==
    /\ Stranded(1)
    /\ cJ[1] = 1
    /\ Len(cArgs[1]) = 2
    /\ cPc[2] = "done"
    /\ Len(gLog) = 4
    /\ sPc = "recvfrom"

\* ---- claims about socket paths, exit statuses and test_client's sockets ----
\* the run has a successful bind
Bound == \E i \in 1..Len(aTrace) : aTrace[i].op = "bind" /\ aTrace[i].res = "ok"

\* C21: in both UNIX-domain servers bind comes right after a remove of the
\* socket path that succeeded or found nothing, so bind never finds an entry
\* there (never EADDRINUSE); a remove that finds nothing prints nothing and
\* is followed by bind; a remove that fails otherwise ends the process with no
\* bind made.
C21_RemoveBeforeBind ==
    aProg \in UnixServers =>
       /\ aPc = "bind" => ~aPath
       /\ \A i \in 1..Len(aTrace) :
            /\ aTrace[i].op = "bind" =>
                 /\ i > 1
                 /\ aTrace[i - 1].op = "remove"
                 /\ aTrace[i - 1].res \in {"ok", "ENOENT"}
                 /\ aTrace[i].res # "EADDRINUSE"
            /\ aTrace[i].op = "remove" =>
                 IF aTrace[i].res \in {"ok", "ENOENT"}
                 THEN /\ ~aTrace[i].diag
                      /\ ThenOnly(i, "bind")
                      /\ i = Len(aTrace) => aPc = "bind"
                 ELSE /\ FatalAt(i)
                      /\ ~Bound

C21_Witness ==
    /\ aProg = "unixDomainDgramServer"
    /\ Len(aTrace) = 3
    /\ aTrace[2].op = "remove"
    /\ aTrace[2].res = "ok"
    /\ aTrace[3].op = "bind"
    /\ aTrace[3].res = "ok"
    /\ aPath

\* the process ended with exit status 0
ExitsZero ==
    /\ Exited
    /\ \/ aStatus = "0"
       \/ aStatus = "errno" /\ aErrno = "0"

\* the process ended on an error path: through errExit, or test_client with
\* no address to connect to
ErrorExit == Exited /\ aStatus \in {"errno", "EXIT_FAILURE"}

\* C24 as stated: every error exit of the programs has a non-zero exit
\* status.
C24_ErrorExitNonZero == ErrorExit => ~ExitsZero

\* the calls of test_client's loop over the candidate addresses
InLoop(i) == aTrace[i].op \in {"socket", "connect"}

\* C29: test_client tries the candidates in list order, one socket each, and
\* stops at the first whose socket and connect both succeed; a socket whose
\* connect failed is closed before the next candidate, so at most one socket
\* is open, and after the loop it is the connected one; with no candidate
\* connected the process exits with EXIT_FAILURE and has written nothing.
C29_FirstCandidateThatConnects ==
    aProg = "test_client" =>
       /\ Cardinality(aSocks) <= 1
       /\ aPc = "socket" => aSocks = {}
       /\ aPc \in {"connect", "write", "write2", "read"} => aSocks = {aCand}
       /\ \A i \in 1..Len(aTrace) :
            /\ aTrace[i].op = "socket" =>
                 /\ i > 1
                 /\ IF InLoop(i - 1)
                    THEN /\ aTrace[i - 1].res # "ok"
                         /\ aTrace[i].cand = aTrace[i - 1].cand + 1
                    ELSE aTrace[i].cand = 1
            /\ aTrace[i].op = "connect" =>
                 /\ aTrace[i - 1].op = "socket"
                 /\ aTrace[i - 1].res = "ok"
                 /\ aTrace[i].cand = aTrace[i - 1].cand
            /\ aTrace[i].op \in {"write", "read"} =>
                 \E j \in 1..(i - 1) :
                    /\ aTrace[j].op = "connect"
                    /\ aTrace[j].res = "ok"
                    /\ \A k \in (j + 1)..i : ~InLoop(k)
       /\ (Exited /\ aTrace # << >> /\ InLoop(Len(aTrace))) =>
            /\ aCand = aCands + 1
            /\ aStatus = "EXIT_FAILURE"
            /\ \A i \in 1..Len(aTrace) : aTrace[i].op # "write"

C29_Witness ==
    /\ aProg = "test_client"
    /\ aCands = 2
    /\ Len(aTrace) = 6
    /\ aTrace[3].op = "connect"
    /\ aTrace[3].res = "EOTHER"
    /\ aTrace[5].op = "connect"
    /\ aTrace[5].res = "ok"
    /\ aTrace[6].op = "write"
    /\ aSocks = {2}

\* the last call of the run was a remove that failed
RemoveFailedLast ==
    /\ aTrace # << >>
    /\ aTrace[Len(aTrace)].op = "remove"
    /\ aTrace[Len(aTrace)].res # "ok"

\* C30 as stated: after a run of the UNIX datagram client that bound its
\* socket, the socket path exists exactly when the process exited through
\* errExit.
C30_PathLeftOnlyByErrExit ==
    (aProg = "unixDomainDgramClient" /\ Exited /\ Bound)
       => (aPath <=> aStatus = "errno")

\* C30 amended: the client removes its socket path only on normal completion,
\* after the last response, and does not check that remove: after a run that
\* bound the socket the path exists exactly when the process exited through
\* errExit or its final remove failed.
C30_PathLeftByErrExitOrFailedRemove ==
    (aProg = "unixDomainDgramClient" /\ Bound) =>
       /\ ~Exited => aPath
       /\ Exited => (aPath <=> (aStatus = "errno" \/ RemoveFailedLast))
       /\ aStatus = "0" => /\ aTrace[Len(aTrace)].op = "remove"
                           /\ aJ = NumMsgs(aProg, aArgv)

C30_Witness ==
    /\ aProg = "unixDomainDgramClient"
    /\ Exited
    /\ aStatus = "errno"
    /\ Len(aTrace) = 4
    /\ aTrace[2].op = "bind"
    /\ aTrace[2].res = "ok"
    /\ aTrace[4].op = "recvfrom"
    /\ aPath

\* ---- one connection at a time ----
Untouched(p) == pSock[p] = Prefix(StreamText, Len(pSock[p]))

AcceptOf(p) == CHOOSE i \in 1..Len(vLog) : IsEv(i, "accept") /\ vLog[i].peer = p

IsEofRead(i) == IsEv(i, "read") /\ vLog[i].data = << >>

\* C25: connections are served strictly one after another.  A peer waiting
\* on the listening socket has had none of its bytes read: no read event
\* names it and everything it sent is still in its socket.  In the server's
\* log every event but an accept belongs to the connection of the event
\* before it, an accept comes first or right after the close that followed
\* the previous connection's end-of-stream read, and the writes of two
\* connections appear in the order of their accepts.
C25_OneConnectionAtATime ==
    /\ \A k \in 1..Len(vBacklog) :
         /\ Untouched(vBacklog[k])
         /\ \A i \in 1..Len(vLog) : vLog[i].peer # vBacklog[k]
    /\ \A i \in 1..Len(vLog) :
         IF IsEv(i, "accept")
         THEN i > 1 => /\ i > 2
                       /\ IsEv(i - 1, "close")
                       /\ IsEofRead(i - 2)
                       /\ vLog[i - 1].peer = vLog[i - 2].peer
                       /\ vLog[i].peer # vLog[i - 1].peer
         ELSE i > 1 /\ vLog[i].peer = vLog[i - 1].peer
    /\ \A i, j \in 1..Len(vLog) :
         (i < j /\ IsEv(i, "write") /\ IsEv(j, "write")
            /\ vLog[i].peer # vLog[j].peer)
           => AcceptOf(vLog[i].peer) < AcceptOf(vLog[j].peer)

\* the first peer has had a chunk copied and is still being served while the
\* second has connected, sent all its input and finished
C25_Witness ==
    /\ vPc = "read"
    /\ vConn = 1
    /\ \E i \in 1..Len(vLog) : IsEv(i, "write") /\ vLog[i].peer = 1
    /\ vBacklog = <<2>>
    /\ pPc[2] = "done"
    /\ pSock[2] = Prefix(StreamText, MaxStream)

\* ------------------------------------------------ readLine (test_client.c)
\* the bytes a descriptor can hold
LineBytes == {97, 98, NEWLINE}

LineInputs == SeqsUpTo(LineBytes, MaxLine)

\* if (totRead < n - 1): the last byte of the buffer is kept for the terminator
RoomLeft(tot, size) == tot < size - 1

LineEnds_onlyIfStored(c, stored) == stored /\ c = NEWLINE

\* if (ch == '\n') break; whether or not the byte was stored
LineEnds(c, stored) == c = NEWLINE

\* if (n <= 0 || buffer == NULL)
BadArgs(size, null) == size <= 0 \/ null

OnReadError_noRetry(err) == "done"

\* if (errno == EINTR) continue; else return -1;
OnReadError(err) == IF err = "EINTR" THEN "read" ELSE "done"

\* a call readLine(fd, buffer, n): the descriptor's contents, n and whether
\* buffer is NULL are the caller's
LineInit ==
    /\ lFd \in LineInputs
    /\ lGot = << >>
    /\ lN \in 0..MaxN
    /\ lNull \in BOOLEAN
    /\ lBuffer = [i \in 0..MaxN |-> Unwritten]
    /\ lBuf = 0
    /\ lTotRead = 0
    /\ lNumRead = 0
    /\ lCh = 0
    /\ lPc = "check"
    /\ lRet = 0
    /\ lErrno = "0"
    /\ lIntr = 0

\* the argument check, then buf = buffer; totRead = 0;
LineCheckArgs ==
    /\ lPc = "check"
    /\ IF BadArgs(lN, lNull)
       THEN /\ lErrno' = "EINVAL"
            /\ lRet' = -1
            /\ lPc' = "done"
       ELSE /\ lPc' = "read"
            /\ UNCHANGED <<lErrno, lRet>>
    /\ UNCHANGED <<lFd, lGot, lN, lNull, lBuffer, lBuf, lTotRead, lNumRead, lCh,
                   lIntr, exceptLine>>

\* *buf = '\0'; return totRead; with the values the iteration has reached
LineTerminate(buffer, buf, tot) ==
    /\ lBuffer' = [buffer EXCEPT ![buf] = 0]
    /\ lBuf' = buf
    /\ lTotRead' = tot
    /\ lRet' = tot
    /\ lPc' = "done"

\* read(fd, &ch, 1) returns 1: the next byte of the descriptor
LineReadByte ==
    /\ lPc = "read"
    /\ lFd # << >>
    /\ lNumRead' = 1
    /\ lCh' = Head(lFd)
    /\ lFd' = Tail(lFd)
    /\ lGot' = Append(lGot, Head(lFd))
    /\ LET stored == RoomLeft(lTotRead, lN)
           tot == IF stored THEN lTotRead + 1 ELSE lTotRead
           buffer == IF stored THEN [lBuffer EXCEPT ![lBuf] = Head(lFd)]
                     ELSE lBuffer
           buf == IF stored THEN lBuf + 1 ELSE lBuf
       IN  IF LineEnds(Head(lFd), stored)
           THEN LineTerminate(buffer, buf, tot)
           ELSE /\ lBuffer' = buffer
                /\ lBuf' = buf
                /\ lTotRead' = tot
                /\ UNCHANGED <<lRet, lPc>>
    /\ UNCHANGED <<lN, lNull, lErrno, lIntr, exceptLine>>

\* read returns 0: end of file
LineReadEof ==
    /\ lPc = "read"
    /\ lFd = << >>
    /\ lNumRead' = 0
    /\ IF lTotRead = 0
       THEN /\ lRet' = 0
            /\ lPc' = "done"
            /\ UNCHANGED <<lBuffer, lBuf, lTotRead>>
       ELSE LineTerminate(lBuffer, lBuf, lTotRead)
    /\ UNCHANGED <<lFd, lGot, lN, lNull, lCh, lErrno, lIntr, exceptLine>>

\* read returns -1 with errno err: interrupted by a signal handler, or not
LineReadError(err) ==
    /\ lPc = "read"
    /\ err = "EINTR" => lIntr < MaxIntr
    /\ lNumRead' = -1
    /\ lErrno' = err
    /\ lIntr' = IF err = "EINTR" THEN lIntr + 1 ELSE lIntr
    /\ lPc' = OnReadError(err)
    /\ lRet' = IF OnReadError(err) = "done" THEN -1 ELSE lRet
    /\ UNCHANGED <<lFd, lGot, lN, lNull, lBuffer, lBuf, lTotRead, lCh, exceptLine>>

SpecReadLineInit ==
    DaemonIdle /\ XformIdle /\ DgramIdle /\ StreamIdle /\ ProgIdle /\ LineInit

SpecReadLineNext ==
    \/ LineCheckArgs
    \/ LineReadByte
    \/ LineReadEof
    \/ LineReadError("EINTR")
    \/ LineReadError("EIO")

SpecReadLine == SpecReadLineInit /\ [][SpecReadLineNext]_vars

\* ---- claims about readLine ----
GoodCall == lN >= 1 /\ ~lNull

ReturnedCount == lPc = "done" /\ GoodCall /\ lRet # -1

\* buffer[0..r-1] holds the first r bytes this call read, nothing is stored
\* after the terminator's place, and nothing at index n or beyond
StoredPrefix(r) ==
    /\ r <= Len(lGot)
    /\ \A i \in 0..(r - 1) : lBuffer[i] = lGot[i + 1]
    /\ \A i \in (r + 1)..MaxN : lBuffer[i] = Unwritten

InBounds == \A i \in 0..MaxN : i >= lN => lBuffer[i] = Unwritten

BufferUntouched == \A i \in 0..MaxN : lBuffer[i] = Unwritten

\* C26 as stated: a call with n >= 1 and a buffer that does not return -1
\* returns r in 0..n-1 with the first r bytes read in buffer[0..r-1] and the
\* zero byte at buffer[r], except that at end of file with nothing read it
\* returns 0 and leaves the buffer alone; nothing is written at index n or
\* beyond.
C26_TerminatedUnlessNothingRead ==
    /\ InBounds
    /\ ReturnedCount =>
         /\ 0 <= lRet /\ lRet <= lN - 1
         /\ StoredPrefix(lRet)
         /\ IF lGot = << >>
            THEN lRet = 0 /\ BufferUntouched
            ELSE lBuffer[lRet] = 0

NewlineAt(q) == {i \in 1..Len(q) : q[i] = NEWLINE}

\* what the call was given to read: what it has taken and what is left
LineData == lGot \o lFd

\* C27: readLine takes bytes from the descriptor one at a time, up to and
\* including the first newline, and then stops.  A newline is never anywhere
\* but at the end of what the call has taken, and once it is there the call
\* has returned; what is left on the descriptor is what followed the bytes
\* taken.  Of a line longer than n - 1 bytes only the first n - 1 are in the
\* buffer; the rest, the newline included, were taken and dropped.
C27_ConsumesThroughNewline ==
    /\ [](/\ NewlineAt(lGot) \subseteq {Len(lGot)}
          /\ (lGot # << >> /\ lGot[Len(lGot)] = NEWLINE) => lPc = "done"
          /\ (ReturnedCount /\ NewlineAt(LineData) # {}) =>
                /\ lGot # << >> /\ lGot[Len(lGot)] = NEWLINE
                /\ lRet = Min(Len(lGot), lN - 1)
                /\ StoredPrefix(lRet))
    /\ [][/\ lGot' \o lFd' = lGot \o lFd
          /\ Len(lGot') <= Len(lGot) + 1
          /\ lPc = "done" => lFd' = lFd]_vars

\* a line of three bytes read with n = 2: one byte is in the buffer, two were
\* dropped, and the byte after the newline is still on the descriptor
C27_Witness ==
    /\ lPc = "done"
    /\ lN = 2
    /\ lGot = <<97, 98, NEWLINE>>
    /\ lFd = <<97>>
    /\ lRet = 1
    /\ lBuffer[0] = 97
    /\ lBuffer[1] = 0

ReadFailedWith(err) == lPc = "read" /\ lNumRead' = -1 /\ lErrno' = err

\* C28: what readLine does with each result of read.  After EINTR the loop
\* goes on with the buffer, the count and the descriptor as they were; any
\* other error makes it return -1.  At end of file it returns the number of
\* bytes stored, with the zero byte after them when there are any.  With
\* n <= 0 or a null buffer it returns -1 with errno EINVAL and has read nothing.
C28_ReadOutcomes ==
    /\ [][/\ ReadFailedWith("EINTR") =>
               /\ lPc' = "read"
               /\ UNCHANGED <<lBuffer, lBuf, lTotRead, lFd, lGot>>
          /\ ReadFailedWith("EIO") => lPc' = "done" /\ lRet' = -1]_vars
    /\ [](/\ (lPc = "done" /\ GoodCall /\ lNumRead = 0) =>
                /\ lFd = << >>
                /\ lRet = Min(Len(lGot), lN - 1)
                /\ StoredPrefix(lRet)
                /\ lRet > 0 => lBuffer[lRet] = 0
          /\ (lPc = "done" /\ (lN <= 0 \/ lNull)) =>
                /\ lRet = -1
                /\ lErrno = "EINVAL"
                /\ lGot = << >> /\ lNumRead = 0 /\ lIntr = 0
                /\ BufferUntouched)

\* a read has just been interrupted after a byte was stored
C28_Witness ==
    /\ lPc = "read"
    /\ lNumRead = -1
    /\ lErrno = "EINTR"
    /\ lTotRead = 1
    /\ lBuffer[0] = 97
    /\ lFd # << >>

====
